---- MODULE Spec2Model ----
(***************************************************************************)
(* fmark: the bookmark index (ParsedFile), its line codec (Bookmark) and   *)
(* the rendering cache (PlainText), together with the earlier Data variant *)
(* of the index that the repository still carries.                         *)
(*                                                                         *)
(* A string is a sequence of Unicode code points, so that character        *)
(* counts, byte order, case folding, trimming and the brace scanner of the *)
(* codec are computed and not assumed.                                     *)
(***************************************************************************)
EXTENDS Integers, Sequences, FiniteSets, TLC

\* ------------------------------------------------------------ characters

\* '\n'
NL == 10

\* ' '
SP == 32

\* '{'
SEGMENT_START == 123

\* '}'
SEGMENT_END == 125

TITLE_MAX_LENGTH == 35

CATEGORY_MAX_LENGTH == 35

URL_MAX_LENGTH == 2048

\* "T"
TITLE_MARKER == <<84>>

\* "C"
CATEGORY_MARKER == <<67>>

\* "U"
URL_MARKER == <<85>>

\* "-"
SEPARATOR_LINE_SYMBOL == <<45>>

\* "-| Add Bookmark |-"
ADD_BOOKMARK == <<45, 124, 32, 65, 100, 100, 32, 66, 111, 111, 107, 109, 97, 114, 107, 32, 124, 45>>

\* char::is_whitespace (the White_Space code points below U+3001)
WhiteSpace == {9, 10, 11, 12, 13, 32, 133, 160, 5760, 8232, 8233, 8239, 8287, 12288} \cup (8192..8202)

\* char::is_ascii_alphabetic() || char::is_ascii_digit()
IsAsciiAlnum(c) == (c \in 48..57) \/ (c \in 65..90) \/ (c \in 97..122)

\* to_lowercase on a string that holds ASCII letters and digits only
AsciiLower(c) == IF c \in 65..90 THEN c + 32 ELSE c

\* usize::saturating_sub
SatSub(a, b) == IF a > b THEN a - b ELSE 0

\* str::chars().count()
CharCount(s) == Len(s)

\* the UTF-8 width of one code point
Utf8Width(c) == IF c < 128 THEN 1 ELSE IF c < 2048 THEN 2 ELSE IF c < 65536 THEN 3 ELSE 4

\* str::len(): the length in bytes, the sum of the UTF-8 widths of the code points
ByteLen(s) ==
    Cardinality({i \in 1..Len(s) : Utf8Width(s[i]) = 1})
       + 2 * Cardinality({i \in 1..Len(s) : Utf8Width(s[i]) = 2})
       + 3 * Cardinality({i \in 1..Len(s) : Utf8Width(s[i]) = 3})
       + 4 * Cardinality({i \in 1..Len(s) : Utf8Width(s[i]) = 4})

\* str::repeat for a one-character string, and the padding of format!("{:w$}", "")
Repeat(c, n) == [i \in 1..n |-> c]

\* a precision that cuts nothing
keep_whole(s, n) == s

\* format!("{:.n$}", s): the first n characters
Truncate(s, n) == IF Len(s) > n THEN SubSeq(s, 1, n) ELSE s

RECURSIVE TrimStartMatches(_, _)
TrimStartMatches(s, set) ==
    IF s # <<>> /\ Head(s) \in set THEN TrimStartMatches(Tail(s), set) ELSE s

RECURSIVE TrimEndMatches(_, _)
TrimEndMatches(s, set) ==
    IF s # <<>> /\ s[Len(s)] \in set THEN TrimEndMatches(SubSeq(s, 1, Len(s) - 1), set) ELSE s

\* str::trim_matches(&[..])
TrimMatches(s, set) == TrimEndMatches(TrimStartMatches(s, set), set)

\* str::trim()
Trim(s) == TrimMatches(s, WhiteSpace)

\* str::starts_with
StartsWith(s, p) == Len(s) >= Len(p) /\ SubSeq(s, 1, Len(p)) = p

\* a line without its "\r" when the line ending was "\r\n"
StripCR(s) == IF s # <<>> /\ s[Len(s)] = 13 THEN SubSeq(s, 1, Len(s) - 1) ELSE s

\* the lines of a text from position i on: each runs to the next "\n"
RECURSIVE LinesFrom(_, _)
LinesFrom(text, i) ==
    IF i > Len(text) THEN <<>>
    ELSE LET ends == {j \in i..Len(text) : text[j] = NL}
         IN  IF ends = {} THEN <<SubSeq(text, i, Len(text))>>
             ELSE LET end == CHOOSE j \in ends : \A k \in ends : j <= k
                  IN  <<StripCR(SubSeq(text, i, end - 1))>> \o LinesFrom(text, end + 1)

\* str::lines(): split at "\n" (or "\r\n"); a final line ending is optional
Lines(text) == LinesFrom(text, 1)

\* the derived Ord of String and of the folded strings: lexicographic on bytes,
\* which for UTF-8 is lexicographic on code points
RECURSIVE StrCmp(_, _)
StrCmp(a, b) ==
    IF a = <<>> THEN (IF b = <<>> THEN "Equal" ELSE "Less")
    ELSE IF b = <<>> THEN "Greater"
    ELSE IF Head(a) < Head(b) THEN "Less"
    ELSE IF Head(a) > Head(b) THEN "Greater"
    ELSE StrCmp(Tail(a), Tail(b))

\* the filter and lowercase step of alphabetic_sort
Fold(s) == LET kept == SelectSeq(s, IsAsciiAlnum) IN [i \in 1..Len(kept) |-> AsciiLower(kept[i])]

\* a comparison of the strings as they are, without the filter and the lowercase
alphabetic_sort_unfolded(a, b) == StrCmp(a, b)

\* PlainText::alphabetic_sort
alphabetic_sort(a, b) == StrCmp(Fold(a), Fold(b))

\* ------------------------------------------------------------ Bookmark

Bookmark(title, category, url) == [title |-> title, category |-> category, url |-> url]

\* the padding computed for one column of to_line
ColumnPadding(padding, max_length, char_count) ==
    IF padding >= max_length - 1
    THEN SatSub(max_length, char_count) + 1
    ELSE SatSub(padding, char_count) + 1

\* Bookmark::to_line
to_line(b, title_padding, category_padding) ==
    LET tp == ColumnPadding(title_padding, TITLE_MAX_LENGTH, CharCount(b.title))
        cp == ColumnPadding(category_padding, CATEGORY_MAX_LENGTH, CharCount(b.category))
        title == IF CharCount(b.title) > TITLE_MAX_LENGTH
                 THEN Truncate(b.title, TITLE_MAX_LENGTH) ELSE b.title
        category == IF CharCount(b.category) > CATEGORY_MAX_LENGTH
                    THEN Truncate(b.category, CATEGORY_MAX_LENGTH) ELSE b.category
        url == IF ByteLen(b.url) > URL_MAX_LENGTH
               THEN Truncate(b.url, URL_MAX_LENGTH) ELSE b.url
        Segment(marker, value) ==
            <<SEGMENT_START>> \o marker \o <<SEGMENT_END, SEGMENT_START>> \o value \o <<SEGMENT_END>>
    IN  Segment(TITLE_MARKER, title) \o Repeat(SP, tp)
        \o Segment(CATEGORY_MARKER, category) \o Repeat(SP, cp)
        \o Segment(URL_MARKER, url) \o <<NL>>

\* the character loop of from_line from position i on, outside a segment: the
\* brace-delimited segments of a line, braces included. Outside a segment only
\* '{' acts: it opens one. Inside, every character is pushed until a newline
\* drops the segment or '}' closes it; a segment still open at the end is lost.
RECURSIVE ScanSegments(_, _, _)
ScanSegments(line, i, segments) ==
    LET starts == {j \in i..Len(line) : line[j] = SEGMENT_START}
        start == CHOOSE j \in starts : \A k \in starts : j <= k
        stops == {j \in (start + 1)..Len(line) : line[j] \in {NL, SEGMENT_END}}
        stop == CHOOSE j \in stops : \A k \in stops : j <= k
    IN  IF starts = {} THEN segments
        ELSE IF stops = {} THEN segments
        ELSE IF line[stop] = NL THEN ScanSegments(line, stop + 1, segments)
        ELSE ScanSegments(line, stop + 1, Append(segments, SubSeq(line, start, stop)))

\* a segment without its braces and surrounding blanks
SegmentText(segment) == Trim(TrimMatches(segment, {SEGMENT_START, SEGMENT_END}))

\* the field of the last (marker, value) pair of the six segments that carries the marker
RECURSIVE FieldOf(_, _, _)
FieldOf(segments, marker, k) ==
    IF k < 1 THEN <<>>
    ELSE IF SegmentText(segments[2 * k - 1]) = marker THEN <<SegmentText(segments[2 * k])>>
    ELSE FieldOf(segments, marker, k - 1)

\* a decoder that takes the three values by position and ignores the markers
from_line_by_position(line) ==
    LET segments == ScanSegments(line, 1, <<>>)
    IN  IF Len(segments) # 6 THEN <<>>
        ELSE <<Bookmark(SegmentText(segments[2]), SegmentText(segments[4]), SegmentText(segments[6]))>>

\* Bookmark::from_line: <<>> is None, <<b>> is Some(b)
from_line(line) ==
    LET segments == ScanSegments(line, 1, <<>>)
    IN  IF Len(segments) # 6 THEN <<>>
        ELSE LET title == FieldOf(segments, TITLE_MARKER, 3)
                 category == FieldOf(segments, CATEGORY_MARKER, 3)
                 url == FieldOf(segments, URL_MARKER, 3)
             IN  IF title # <<>> /\ category # <<>> /\ url # <<>>
                 THEN <<Bookmark(title[1], category[1], url[1])>>
                 ELSE <<>>

\* ------------------------------------------------------------ collections

\* HashMap::insert
MapInsert(m, k, v) == [y \in DOMAIN m \cup {k} |-> IF y = k THEN v ELSE m[y]]

\* HashMap::remove
MapRemove(m, k) == [y \in DOMAIN m \ {k} |-> m[y]]

\* HashMap::values() as a set
Values(m) == {m[k] : k \in DOMAIN m}

\* Vec::insert at a 0-based index
InsertAt(list, index, v) == SubSeq(list, 1, index) \o <<v>> \o SubSeq(list, index + 1, Len(list))

\* Vec::remove at a 0-based index
RemoveAt(list, index) == SubSeq(list, 1, index) \o SubSeq(list, index + 2, Len(list))

\* Vec::contains
Contains(list, v) == \E i \in 1..Len(list) : list[i] = v

\* slice::sort_by, a stable sort, with the comparator given as a function on
\* pairs: an element moves behind those that compare Less than it and those that
\* compare Equal and stood before it
StableSortBy(list, cmp) ==
    LET n == Len(list)
        Before(j, i) == cmp[list[j], list[i]] = "Less" \/ (cmp[list[j], list[i]] = "Equal" /\ j < i)
        Rank(i) == Cardinality({j \in 1..n : Before(j, i)}) + 1
    IN  [k \in 1..n |-> list[CHOOSE i \in 1..n : Rank(i) = k]]

\* the orders in which a HashMap may hand out a set of values
Orders(S) ==
    {o \in [1..Cardinality(S) -> S] : \A i, j \in 1..Cardinality(S) : i # j => o[i] # o[j]}

\* slice::binary_search as the standard library implemented it from 1.52: a loop
\* over [left, right) that returns at the first Equal probe
RECURSIVE BinarySearchLoop(_, _, _, _)
BinarySearchLoop(list, v, left, right) ==
    IF left >= right THEN [found |-> FALSE, index |-> left]
    ELSE LET mid == left + ((right - left) \div 2)
             cmp == StrCmp(list[mid + 1], v)
         IN  IF cmp = "Less" THEN BinarySearchLoop(list, v, mid + 1, right)
             ELSE IF cmp = "Greater" THEN BinarySearchLoop(list, v, left, mid)
             ELSE [found |-> TRUE, index |-> mid]

\* slice::binary_search as implemented before 1.52 and again from 1.82: halve
\* the size, keep a base, compare once more at the end
RECURSIVE BinarySearchBase(_, _, _, _)
BinarySearchBase(list, v, base, size) ==
    IF size > 1
    THEN LET half == size \div 2
             mid == base + half
         IN  BinarySearchBase(list, v, IF StrCmp(list[mid + 1], v) = "Greater" THEN base ELSE mid,
                              size - half)
    ELSE LET cmp == StrCmp(list[base + 1], v)
         IN  IF cmp = "Equal" THEN [found |-> TRUE, index |-> base]
             ELSE [found |-> FALSE, index |-> base + (IF cmp = "Less" THEN 1 ELSE 0)]

\* Vec<String>::binary_search(&v): the results the toolchains produce. On a list
\* in String order they agree; on any other list the result is unspecified.
binary_search(list, v) ==
    {BinarySearchLoop(list, v, 0, Len(list)),
     IF list = <<>> THEN [found |-> FALSE, index |-> 0] ELSE BinarySearchBase(list, v, 0, Len(list))}

\* ------------------------------------------------------------ PlainText

\* PlainText::new
PlainTextNew ==
    [bookmarks |-> <<>>,
     previous_bookmarks_version |-> 0,
     current_bookmarks_version |-> 0,
     bookmarks_initialized |-> FALSE,
     categories |-> <<>>,
     previous_categories_version |-> 0,
     current_categories_version |-> 0,
     categories_initialized |-> FALSE,
     edited |-> FALSE]

\* PlainText::read, when the file can be read
read(pt, file) == [pt EXCEPT !.bookmarks = file]

MAX_FILE_SIZE == 5 * 1024 * 1024

\* a read that puts no limit on the size of the file
read_result_unlimited(pt, metadata, contents) ==
    IF metadata = <<>> \/ contents = <<>>
    THEN [pt |-> pt, ret |-> "Err"]
    ELSE [pt |-> read(pt, contents[1]), ret |-> "Ok"]

\* PlainText::read with the answers of the file system: metadata is <<>> when
\* fs::metadata fails and <<len>> otherwise, contents is <<>> when
\* fs::read_to_string fails and <<text>> otherwise
read_result(pt, metadata, contents) ==
    IF metadata = <<>>
    THEN [pt |-> pt, ret |-> "Err"]
    ELSE IF metadata[1] > MAX_FILE_SIZE
         THEN [pt |-> pt, ret |-> "Err"]
         ELSE IF contents = <<>>
              THEN [pt |-> pt, ret |-> "Err"]
              ELSE [pt |-> read(pt, contents[1]), ret |-> "Ok"]

\* a set_edited_true that forgets the flag
keep_edited(pt) == pt

set_edited_true(pt) == [pt EXCEPT !.edited = TRUE]

\* increment_bookmarks_version that leaves the counter alone
keep_bookmarks_version(pt) == pt

\* increment_bookmarks_version that counts a mutation twice
bump_bookmarks_version_twice(pt) == [pt EXCEPT !.current_bookmarks_version = @ + 2]

increment_bookmarks_version(pt) == [pt EXCEPT !.current_bookmarks_version = @ + 1]

increment_categories_version(pt) == [pt EXCEPT !.current_categories_version = @ + 1]

\* ------------------------------------------------------------ ParsedFile

\* ParsedFile::add_char_count on one histogram and its maximum
add_char_count(char_count_vec, longest, field) ==
    LET char_count == CharCount(field)
    IN  IF char_count = 0 THEN [vec |-> char_count_vec, longest |-> longest]
        ELSE [vec |-> IF char_count \in DOMAIN char_count_vec
                      THEN [char_count_vec EXCEPT ![char_count] = @ + 1]
                      ELSE char_count_vec,
              longest |-> IF char_count > longest THEN char_count ELSE longest]

\* a remove_char_count that does not look for the next width in use
remove_char_count_no_scan(char_count_vec, longest, field) ==
    LET char_count == CharCount(field)
    IN  IF char_count = 0 \/ char_count \notin DOMAIN char_count_vec
        THEN [vec |-> char_count_vec, longest |-> longest]
        ELSE LET vec1 == [char_count_vec EXCEPT ![char_count] = @ - 1]
             IN  [vec |-> vec1,
                  longest |-> IF vec1[char_count] = 0 /\ char_count = longest
                              THEN 0 ELSE longest]

\* ParsedFile::remove_char_count. The bucket is a usize: a result of -1 stands
\* for the decrement of an empty bucket, which wraps to usize::MAX where the
\* build does not check overflow; "amount > 0" on a usize is "amount # 0".
remove_char_count(char_count_vec, longest, field) ==
    LET char_count == CharCount(field)
    IN  IF char_count = 0 \/ char_count \notin DOMAIN char_count_vec
        THEN [vec |-> char_count_vec, longest |-> longest]
        ELSE LET vec1 == [char_count_vec EXCEPT ![char_count] = @ - 1]
                 left == {i \in 1..char_count : i \in DOMAIN vec1 /\ vec1[i] # 0}
             IN  [vec |-> vec1,
                  longest |-> IF vec1[char_count] = 0 /\ char_count = longest
                              THEN (IF left = {} THEN 0 ELSE CHOOSE i \in left : \A j \in left : j <= i)
                              ELSE longest]

add_titles_char_count(pf, title) ==
    LET r == add_char_count(pf.titles_char_count, pf.longest_title, title)
    IN  [pf EXCEPT !.titles_char_count = r.vec, !.longest_title = r.longest]

remove_titles_char_count(pf, title) ==
    LET r == remove_char_count(pf.titles_char_count, pf.longest_title, title)
    IN  [pf EXCEPT !.titles_char_count = r.vec, !.longest_title = r.longest]

add_category_char_count(pf, category) ==
    LET r == add_char_count(pf.categories_char_count, pf.longest_category, category)
    IN  [pf EXCEPT !.categories_char_count = r.vec, !.longest_category = r.longest]

remove_category_char_count(pf, category) ==
    LET r == remove_char_count(pf.categories_char_count, pf.longest_category, category)
    IN  [pf EXCEPT !.categories_char_count = r.vec, !.longest_category = r.longest]

\* ParsedFile::add_category: the possible results [pf, ret]
add_category(pf, category) ==
    IF category \in DOMAIN pf.category_count
    THEN {[pf |-> [pf EXCEPT !.category_count[category] = @ + 1], ret |-> FALSE]}
    ELSE LET counted == [pf EXCEPT !.category_count = MapInsert(@, category, 1)]
         IN  {IF r.found
              THEN [pf |-> counted, ret |-> FALSE]
              ELSE [pf |-> [add_category_char_count(counted, category)
                               EXCEPT !.categories = InsertAt(@, r.index, category)],
                    ret |-> TRUE]
              : r \in binary_search(pf.categories, category)}

\* ParsedFile::remove_category: the possible results [pf, ret]. The count is a
\* usize: a result of -1 stands for the decrement of a zero count.
remove_category(pf, category) ==
    IF category \notin DOMAIN pf.category_count
    THEN {[pf |-> pf, ret |-> FALSE]}
    ELSE LET counted == [pf EXCEPT !.category_count[category] = @ - 1]
         IN  IF counted.category_count[category] # 0
             THEN {[pf |-> counted, ret |-> FALSE]}
             ELSE {IF r.found
                   THEN [pf |-> [remove_category_char_count(counted, category)
                                    EXCEPT !.categories = RemoveAt(@, r.index)],
                         ret |-> TRUE]
                   ELSE [pf |-> counted, ret |-> FALSE]
                   : r \in binary_search(pf.categories, category)}

\* the struct literal at the head of ParsedFile::new
ParsedFileEmpty ==
    [bookmarks |-> <<>>,
     titles_char_count |-> [i \in 0..TITLE_MAX_LENGTH |-> 0],
     longest_title |-> 0,
     invalid_lines |-> <<>>,
     categories |-> <<>>,
     category_count |-> <<>>,
     categories_char_count |-> [i \in 0..CATEGORY_MAX_LENGTH |-> 0],
     longest_category |-> 0]

\* the body of the line loop of ParsedFile::new for line number i
ParseLine(pf, i, line) ==
    LET trimmed_line == Trim(line)
        decoded == from_line(trimmed_line)
    IN  IF StartsWith(trimmed_line, SEPARATOR_LINE_SYMBOL) THEN {pf}
        ELSE IF decoded # <<>>
        THEN {[r.pf EXCEPT !.bookmarks = MapInsert(@, decoded[1].url, decoded[1])]
              : r \in add_category(add_titles_char_count(pf, decoded[1].title), decoded[1].category)}
        ELSE {[pf EXCEPT !.invalid_lines = MapInsert(@, i, line)]}

RECURSIVE ParseLines(_, _, _)
ParseLines(lines, n, pfs) ==
    IF n > Len(lines) THEN pfs
    ELSE ParseLines(lines, n + 1, UNION {ParseLine(pf, n - 1, lines[n]) : pf \in pfs})

\* ParsedFile::new: the indexes it may return for a text
ParsedFileNew(plain_text_bookmarks) ==
    {[pf EXCEPT !.categories =
                   StableSortBy(@, [a \in DOMAIN pf.category_count, b \in DOMAIN pf.category_count
                                       |-> alphabetic_sort(a, b)])]
     : pf \in ParseLines(Lines(plain_text_bookmarks), 1, {ParsedFileEmpty})}

\* add_bookmark with the categories version advanced on every call
add_bookmark_always_bumps(pf, pt, new_bookmark) ==
    {[pf |-> [add_titles_char_count(r.pf, new_bookmark.title)
                 EXCEPT !.bookmarks = MapInsert(@, new_bookmark.url, new_bookmark)],
      pt |-> set_edited_true(increment_bookmarks_version(increment_categories_version(pt)))]
     : r \in add_category(pf, new_bookmark.category)}

\* ParsedFile::add_bookmark: the possible results [pf, pt]
add_bookmark(pf, pt, new_bookmark) ==
    {[pf |-> [add_titles_char_count(r.pf, new_bookmark.title)
                 EXCEPT !.bookmarks = MapInsert(@, new_bookmark.url, new_bookmark)],
      pt |-> set_edited_true(increment_bookmarks_version(
                 IF r.ret THEN increment_categories_version(pt) ELSE pt))]
     : r \in add_category(pf, new_bookmark.category)}

\* a modify that stores the new record and leaves the entry of the old URL
modify_keeps_old_url(pf, pt, new_bookmark, old_bookmark) ==
    LET titled == IF old_bookmark.title # new_bookmark.title
                  THEN add_titles_char_count(
                           remove_titles_char_count(pf, old_bookmark.title), new_bookmark.title)
                  ELSE pf
        categorized ==
            IF old_bookmark.category # new_bookmark.category
            THEN UNION {{[pf |-> added.pf, bump |-> removed.ret \/ added.ret]
                         : added \in add_category(removed.pf, new_bookmark.category)}
                        : removed \in remove_category(titled, old_bookmark.category)}
            ELSE {[pf |-> titled, bump |-> FALSE]}
    IN  {[pf |-> [c.pf EXCEPT !.bookmarks = MapInsert(@, new_bookmark.url, new_bookmark)],
          pt |-> set_edited_true(increment_bookmarks_version(
                     IF c.bump THEN increment_categories_version(pt) ELSE pt))]
         : c \in categorized}

\* ParsedFile::modify_bookmark past its early return
ModifyChanged(pf, pt, new_bookmark, old_bookmark) ==
    LET titled == IF old_bookmark.title # new_bookmark.title
                  THEN add_titles_char_count(
                           remove_titles_char_count(pf, old_bookmark.title), new_bookmark.title)
                  ELSE pf
        categorized ==
            IF old_bookmark.category # new_bookmark.category
            THEN UNION {{[pf |-> added.pf, bump |-> removed.ret \/ added.ret]
                         : added \in add_category(removed.pf, new_bookmark.category)}
                        : removed \in remove_category(titled, old_bookmark.category)}
            ELSE {[pf |-> titled, bump |-> FALSE]}
    IN  {[pf |-> [c.pf EXCEPT !.bookmarks =
                     IF old_bookmark.url # new_bookmark.url
                     THEN MapInsert(MapRemove(@, old_bookmark.url), new_bookmark.url, new_bookmark)
                     ELSE MapInsert(@, old_bookmark.url, new_bookmark)],
          pt |-> set_edited_true(increment_bookmarks_version(
                     IF c.bump THEN increment_categories_version(pt) ELSE pt))]
         : c \in categorized}

\* modify_bookmark without its early return
modify_bookmark_no_return(pf, pt, new_bookmark, old_bookmark) ==
    ModifyChanged(pf, pt, new_bookmark, old_bookmark)

\* ParsedFile::modify_bookmark: the possible results [pf, pt]
modify_bookmark(pf, pt, new_bookmark, old_bookmark) ==
    IF old_bookmark = new_bookmark THEN {[pf |-> pf, pt |-> pt]}
    ELSE ModifyChanged(pf, pt, new_bookmark, old_bookmark)

\* ParsedFile::remove_bookmark when the map holds the URL
RemovePresent(pf, pt, url) ==
    LET bookmark == pf.bookmarks[url]
        removed == [pf EXCEPT !.bookmarks = MapRemove(@, url)]
    IN  {[pf |-> remove_titles_char_count(r.pf, bookmark.title),
          pt |-> set_edited_true(increment_bookmarks_version(
                     IF r.ret THEN increment_categories_version(pt) ELSE pt))]
         : r \in remove_category(removed, bookmark.category)}

\* remove_bookmark with the version and the flag set outside the if let
remove_bookmark_always_bumps(pf, pt, url) ==
    IF url \notin DOMAIN pf.bookmarks
    THEN {[pf |-> pf, pt |-> set_edited_true(increment_bookmarks_version(pt))]}
    ELSE RemovePresent(pf, pt, url)

\* ParsedFile::remove_bookmark: the possible results [pf, pt]
remove_bookmark(pf, pt, url) ==
    IF url \notin DOMAIN pf.bookmarks THEN {[pf |-> pf, pt |-> pt]}
    ELSE RemovePresent(pf, pt, url)

\* ------------------------------------------------------------ rendering

\* the comparator update_bookmarks hands to sort_by
BookmarkOrder(a, b) ==
    IF alphabetic_sort(a.category, b.category) = "Equal"
    THEN alphabetic_sort(a.title, b.title)
    ELSE alphabetic_sort(a.category, b.category)

\* bookmarks_vec after sort_by: bookmarks.values() comes in any order, and the
\* stable sort keeps that order among records that compare Equal
SortedBookmarks(bookmarks) ==
    {StableSortBy([i \in 1..Len(o) |-> bookmarks[o[i]]],
                  [a \in Values(bookmarks), b \in Values(bookmarks) |-> BookmarkOrder(a, b)])
     : o \in Orders(DOMAIN bookmarks)}

\* the separator line of update_bookmarks
separator_line(pf) ==
    Repeat(SEPARATOR_LINE_SYMBOL[1], pf.longest_title + pf.longest_category + 8) \o <<NL>>

\* PlainText::formatted_add_bookmark
formatted_add_bookmark(pf) ==
    LET padding == SatSub(pf.longest_title + pf.longest_category + 8, CharCount(ADD_BOOKMARK))
        left_padding == padding \div 2
        right_padding == padding - left_padding
    IN  Repeat(SEPARATOR_LINE_SYMBOL[1], left_padding) \o ADD_BOOKMARK
        \o Repeat(SEPARATOR_LINE_SYMBOL[1], right_padding) \o <<NL>>

\* a slot loop in which an invalid line forgets the current category
RECURSIVE RenderSlotsResetting(_, _, _, _)
RenderSlotsResetting(pf, bookmarks_vec, i, current_category) ==
    IF i >= Len(bookmarks_vec) + Cardinality(DOMAIN pf.invalid_lines) THEN <<>>
    ELSE IF i \in DOMAIN pf.invalid_lines
    THEN pf.invalid_lines[i] \o <<NL>> \o RenderSlotsResetting(pf, bookmarks_vec, i + 1, <<>>)
    ELSE IF i < Len(bookmarks_vec)
    THEN LET b == bookmarks_vec[i + 1]
         IN  (IF current_category # <<>> /\ current_category[1] # b.category
              THEN separator_line(pf) ELSE <<>>)
             \o to_line(b, pf.longest_title, pf.longest_category)
             \o RenderSlotsResetting(pf, bookmarks_vec, i + 1, <<b.category>>)
    ELSE RenderSlotsResetting(pf, bookmarks_vec, i + 1, current_category)

\* the loop of update_bookmarks over 0..combined_len, from slot i on;
\* current_category is <<>> for None and <<c>> for Some(c)
RECURSIVE RenderSlots(_, _, _, _)
RenderSlots(pf, bookmarks_vec, i, current_category) ==
    IF i >= Len(bookmarks_vec) + Cardinality(DOMAIN pf.invalid_lines) THEN <<>>
    ELSE IF i \in DOMAIN pf.invalid_lines
    THEN pf.invalid_lines[i] \o <<NL>> \o RenderSlots(pf, bookmarks_vec, i + 1, current_category)
    ELSE IF i < Len(bookmarks_vec)
    THEN LET b == bookmarks_vec[i + 1]
         IN  (IF current_category # <<>> /\ current_category[1] # b.category
              THEN separator_line(pf) ELSE <<>>)
             \o to_line(b, pf.longest_title, pf.longest_category)
             \o RenderSlots(pf, bookmarks_vec, i + 1, <<b.category>>)
    ELSE RenderSlots(pf, bookmarks_vec, i + 1, current_category)

\* the text update_bookmarks builds for one order of the records
RenderBookmarks(pf, bookmarks_vec) ==
    formatted_add_bookmark(pf) \o RenderSlots(pf, bookmarks_vec, 0, <<>>)

\* the texts a render of the index may produce
Renderings(pf) == {RenderBookmarks(pf, v) : v \in SortedBookmarks(pf.bookmarks)}

\* PlainText::update_bookmarks: the possible results
update_bookmarks(pt, pf) ==
    IF pt.previous_bookmarks_version = pt.current_bookmarks_version /\ pt.bookmarks_initialized
    THEN {pt}
    ELSE {[pt EXCEPT !.bookmarks = text,
                     !.previous_bookmarks_version = pt.current_bookmarks_version,
                     !.bookmarks_initialized = TRUE]
          : text \in Renderings(pf)}

RECURSIVE JoinLines(_)
JoinLines(list) == IF list = <<>> THEN <<>> ELSE Head(list) \o <<NL>> \o JoinLines(Tail(list))

\* PlainText::update_categories
update_categories(pt, pf) ==
    IF pt.previous_categories_version = pt.current_categories_version /\ pt.categories_initialized
    THEN pt
    ELSE [pt EXCEPT !.categories = JoinLines(pf.categories),
                    !.previous_categories_version = pt.current_categories_version,
                    !.categories_initialized = TRUE]

\* a write that does not look at the edited flag
write_unconditional(pt, pf) ==
    {[pt |-> rendered, written |-> <<rendered.bookmarks>>] : rendered \in update_bookmarks(pt, pf)}

\* PlainText::write when fs::write succeeds: the possible results [pt, written],
\* written being <<>> for no write and <<bytes>> for the bytes handed to fs::write
write(pt, pf) ==
    IF ~pt.edited THEN {[pt |-> pt, written |-> <<>>]}
    ELSE {[pt |-> rendered, written |-> <<rendered.bookmarks>>]
          : rendered \in update_bookmarks(pt, pf)}

\* ParsedFile::set_bookmark, which main.rs calls and parsed_file.rs does not
\* define: the upsert of the specification, add for no old record and modify
\* for an old record <<old_bookmark>>
set_bookmark(pf, pt, new_bookmark, old) ==
    IF old = <<>> THEN add_bookmark(pf, pt, new_bookmark)
    ELSE modify_bookmark(pf, pt, new_bookmark, old[1])

\* ------------------------------------------------------------ Data (data.rs)

\* Data::new
DataNew ==
    [plain_text |-> <<>>,
     categories_plain_text |-> <<>>,
     previous_version |-> 0,
     current_version |-> 0,
     categories |-> <<>>,
     bookmarks |-> <<>>,
     invalid_lines |-> <<>>,
     read |-> FALSE,
     edited |-> FALSE,
     initialized |-> FALSE,
     categories_sorted |-> FALSE]

\* Data::alphabetic_sort: the first differing position of the folded strings, then the lengths
Data_alphabetic_sort(a, b) ==
    LET fa == Fold(a)
        fb == Fold(b)
        len == IF Len(fa) < Len(fb) THEN Len(fa) ELSE Len(fb)
        differ == {i \in 1..len : fa[i] # fb[i]}
        first == CHOOSE i \in differ : \A j \in differ : i <= j
    IN  IF differ # {} THEN (IF fa[first] < fb[first] THEN "Less" ELSE "Greater")
        ELSE IF Len(fa) < Len(fb) THEN "Less"
        ELSE IF Len(fa) > Len(fb) THEN "Greater"
        ELSE "Equal"

\* Data::set_bookmark; old_url is <<>> for None and <<u>> for Some(u)
Data_set_bookmark(d, category_in, title_in, url_in, old_url) ==
    LET title == Trim(title_in)
        url == Trim(url_in)
        category == Trim(category_in)
        listed == IF Contains(d.categories, category) THEN d
                  ELSE [d EXCEPT !.categories = Append(@, category), !.categories_sorted = FALSE]
        old_bookmark == IF old_url # <<>> /\ old_url[1] \in DOMAIN d.bookmarks
                        THEN <<d.bookmarks[old_url[1]]>> ELSE <<>>
        new_bookmark == Bookmark(title, category, url)
    IN  IF old_bookmark # <<new_bookmark>>
        THEN [listed EXCEPT !.bookmarks =
                                MapInsert(IF old_bookmark # <<>> THEN MapRemove(@, old_bookmark[1].url) ELSE @,
                                          url, new_bookmark),
                            !.current_version = @ + 1,
                            !.edited = TRUE]
        ELSE listed

\* Data::remove_bookmark
Data_remove_bookmark(d, url) ==
    IF url \notin DOMAIN d.bookmarks THEN d
    ELSE LET category == d.bookmarks[url].category
             removed == MapRemove(d.bookmarks, url)
         IN  [d EXCEPT !.bookmarks = removed,
                       !.categories = IF \E k \in DOMAIN removed : removed[k].category = category
                                      THEN @ ELSE SelectSeq(@, LAMBDA c : c # category),
                       !.current_version = @ + 1,
                       !.edited = TRUE]

\* Data::categories_plain_text: the struct afterwards; the text returned is its
\* categories_plain_text
Data_categories_plain_text(d) ==
    IF ~d.categories_sorted
    THEN LET names == {d.categories[i] : i \in 1..Len(d.categories)}
             sorted == StableSortBy(d.categories,
                                    [a \in names, b \in names |-> Data_alphabetic_sort(a, b)])
         IN  [d EXCEPT !.categories = sorted,
                       !.categories_sorted = TRUE,
                       !.categories_plain_text = JoinLines(sorted)]
    ELSE d

\* ------------------------------------------------------------ inputs and bounds

\* the number of effective mutations of one session
MaxEdits == 2

\* "t", and a title of TITLE_MAX_LENGTH + 1 characters "xx...x"
Titles == {<<116>>, Repeat(120, TITLE_MAX_LENGTH + 1)}

\* "a" and "Bb": String order puts "Bb" first, alphabetic_sort puts "a" first
Categories == {<<97>>, <<66, 98>>}

\* "u1", "u2"
Urls == {<<117, 49>>, <<117, 50>>}

\* "u3": a URL that no record carries, for calls that name an absent key
AbsentUrl == <<117, 51>>

Bookmarks == {Bookmark(t, c, u) : t \in Titles, c \in Categories, u \in Urls}

\* "not a bookmark"
NotABookmark == <<110, 111, 116, 32, 97, 32, 98, 111, 111, 107, 109, 97, 114, 107>>

\* "junk"
Junk == <<106, 117, 110, 107>>

\* The bookmark files read at startup: an empty file, a file of one record of
\* category "a", a file of one record of category "Bb", and a file with a
\* foreign line, a record of category "a", a separator, a record of category
\* "Bb" and a second foreign line.
Files ==
    {<<>>,
     to_line(Bookmark(<<116>>, <<97>>, <<117, 49>>), 1, 1),
     to_line(Bookmark(<<116>>, <<66, 98>>, <<117, 50>>), 1, 2),
     NotABookmark \o <<NL>>
        \o to_line(Bookmark(<<116>>, <<97>>, <<117, 49>>), 1, 2)
        \o Repeat(SEPARATOR_LINE_SYMBOL[1], 11) \o <<NL>>
        \o to_line(Bookmark(<<116>>, <<66, 98>>, <<117, 50>>), 1, 2)
        \o Junk \o <<NL>>}

\* the arguments main.rs may hand to Data::set_bookmark: " t" is trimmed to "t"
DataTitles == {<<116>>, <<32, 116>>, <<120>>}

\* ------------------------------------------------------------ ParsedFile (parse_file.rs)

\* the width fields of the struct literal of ParsedFile::new in parse_file.rs
TwoSlotEmpty == [previous_longest_title |-> 0, longest_title |-> 0]

\* update_longest_title of parse_file.rs
update_longest_title(pf, title_char_count) ==
    IF title_char_count > pf.longest_title
    THEN [pf EXCEPT !.previous_longest_title = pf.longest_title,
                    !.longest_title = title_char_count]
    ELSE pf

\* revert_longest_title of parse_file.rs
revert_longest_title(pf, title_char_count) ==
    IF title_char_count >= pf.longest_title
    THEN [pf EXCEPT !.longest_title = pf.previous_longest_title]
    ELSE pf

\* ------------------------------------------------------------ state

VARIABLES
    variant,        \* which generation of the index runs: "parsed_file" or "data"
    parsed_file,    \* the ParsedFile of main
    plain_text,     \* the PlainText of main
    data,           \* the Data of the earlier generation
    op,             \* the last call: [name, args], with ret where the value returned matters
    pc,             \* where main stands
    file,           \* the text of the bookmark file on disk
    history         \* the calls made to a width tracker so far, oldest first

vars == <<variant, pc, file, history, parsed_file, plain_text, data, op>>

Call(name, args) == [name |-> name, args |-> args]

\* main up to show_list: PlainText::new, read, ParsedFile::new; or Data::new
Init ==
    /\ op = Call("new", <<>>)
    /\ pc = "show_list"
    /\ history = <<>>
    /\ \/ /\ variant = "parsed_file"
          /\ file \in Files
          /\ plain_text = read(PlainTextNew, file)
          /\ parsed_file \in ParsedFileNew(file)
          /\ data = DataNew
       \/ /\ variant = "data"
          /\ file = <<>>
          /\ plain_text = PlainTextNew
          /\ parsed_file = ParsedFileEmpty
          /\ data = DataNew

AddBookmark(new_bookmark) ==
    /\ variant = "parsed_file"
    /\ plain_text.current_bookmarks_version < MaxEdits
    /\ \E r \in add_bookmark(parsed_file, plain_text, new_bookmark) :
          /\ parsed_file' = r.pf
          /\ plain_text' = r.pt
    /\ op' = Call("add_bookmark", <<new_bookmark>>)
    /\ UNCHANGED <<variant, history, data, pc, file>>

\* the record to modify is one the index holds
ModifyBookmark(new_bookmark, old_bookmark) ==
    /\ variant = "parsed_file"
    /\ plain_text.current_bookmarks_version < MaxEdits
    /\ old_bookmark.url \in DOMAIN parsed_file.bookmarks
    /\ parsed_file.bookmarks[old_bookmark.url] = old_bookmark
    /\ \E r \in modify_bookmark(parsed_file, plain_text, new_bookmark, old_bookmark) :
          /\ parsed_file' = r.pf
          /\ plain_text' = r.pt
    /\ op' = Call("modify_bookmark", <<new_bookmark, old_bookmark>>)
    /\ UNCHANGED <<variant, history, data, pc, file>>

RemoveBookmark(url) ==
    /\ variant = "parsed_file"
    /\ plain_text.current_bookmarks_version < MaxEdits
    /\ \E r \in remove_bookmark(parsed_file, plain_text, url) :
          /\ parsed_file' = r.pf
          /\ plain_text' = r.pt
    /\ op' = Call("remove_bookmark", <<url>>)
    /\ UNCHANGED <<variant, history, data, pc, file>>

UpdateBookmarks ==
    /\ variant = "parsed_file"
    /\ plain_text' \in update_bookmarks(plain_text, parsed_file)
    /\ op' = Call("update_bookmarks", <<>>)
    /\ UNCHANGED <<variant, history, parsed_file, data, pc, file>>

UpdateCategories ==
    /\ variant = "parsed_file"
    /\ plain_text' = update_categories(plain_text, parsed_file)
    /\ op' = Call("update_categories", <<>>)
    /\ UNCHANGED <<variant, history, parsed_file, data, pc, file>>

DataSetBookmark(category, title, url, old_url) ==
    /\ variant = "data"
    /\ data.current_version < MaxEdits
    /\ data' = Data_set_bookmark(data, category, title, url, old_url)
    /\ op' = Call("set_bookmark", <<category, title, url, old_url>>)
    /\ UNCHANGED <<variant, history, parsed_file, plain_text, pc, file>>

DataRemoveBookmark(url) ==
    /\ variant = "data"
    /\ data.current_version < MaxEdits
    /\ data' = Data_remove_bookmark(data, url)
    /\ op' = Call("remove_bookmark", <<url>>)
    /\ UNCHANGED <<variant, history, parsed_file, plain_text, pc, file>>

DataCategoriesPlainText ==
    /\ variant = "data"
    /\ data' = Data_categories_plain_text(data)
    /\ op' = Call("categories_plain_text", <<>>)
    /\ UNCHANGED <<variant, history, parsed_file, plain_text, pc, file>>

Next ==
    \/ \E new_bookmark \in Bookmarks : AddBookmark(new_bookmark)
    \/ \E new_bookmark, old_bookmark \in Bookmarks : ModifyBookmark(new_bookmark, old_bookmark)
    \/ \E url \in Urls \cup {AbsentUrl} : RemoveBookmark(url)
    \/ UpdateBookmarks
    \/ UpdateCategories
    \/ \E category \in Categories, title \in DataTitles, url \in Urls, old_url \in {<<>>} \cup {<<u>> : u \in Urls} :
          DataSetBookmark(category, title, url, old_url)
    \/ \E url \in Urls \cup {AbsentUrl} : DataRemoveBookmark(url)
    \/ DataCategoriesPlainText

Spec == Init /\ [][Next]_vars

\* ------------------------------------------------------------ observations

ListSet(list) == {list[i] : i \in 1..Len(list)}

NoDuplicates(list) == \A i, j \in 1..Len(list) : i # j => list[i] # list[j]

\* the largest member of a set of numbers, 0 for none
MaxOf(S) == IF S = {} THEN 0 ELSE CHOOSE m \in S : \A n \in S : n <= m

LiveCategories(bookmarks) == {bookmarks[k].category : k \in DOMAIN bookmarks}

LiveTitles(bookmarks) == {bookmarks[k].title : k \in DOMAIN bookmarks}

\* the records decoded from the record lines of a text, in the order of the lines
RECURSIVE DecodeLines(_)
DecodeLines(lines) ==
    IF lines = <<>> THEN <<>>
    ELSE (IF StartsWith(Trim(Head(lines)), SEPARATOR_LINE_SYMBOL) THEN <<>> ELSE from_line(Trim(Head(lines))))
         \o DecodeLines(Tail(lines))

RecordsIn(text) == DecodeLines(Lines(text))

\* how many lines of a text are exactly this line
Occurrences(text, line) == Cardinality({i \in 1..Len(Lines(text)) : Lines(text)[i] = line})

InParsedFile == variant = "parsed_file"

InData == variant = "data"

\* a live record other than the one under `url` has this category
UsedByAnother(bookmarks, category, url) ==
    \E k \in DOMAIN bookmarks \ {url} : bookmarks[k].category = category

\* ------------------------------------------------------------ C1

\* C1: after ParsedFile::new and any sequence of add_bookmark / modify_bookmark /
\* remove_bookmark calls, categories() holds exactly the distinct categories of
\* the records in the bookmarks map, each once.
C1_CategoriesAreTheLiveCategories ==
    InParsedFile =>
        /\ ListSet(parsed_file.categories) = LiveCategories(parsed_file.bookmarks)
        /\ NoDuplicates(parsed_file.categories)

\* ------------------------------------------------------------ C2

\* C2: the record lines of the text update_bookmarks produced, read in order, are
\* all live records, each once, sorted by (category, title) under alphabetic_sort.
C2_RenderedRecordsAreTheLiveRecords ==
    (InParsedFile /\ op.name = "update_bookmarks") =>
        RecordsIn(plain_text.bookmarks) \in SortedBookmarks(parsed_file.bookmarks)

\* ------------------------------------------------------------ C3

\* C3: every invalid line ParsedFile::new recorded stands in the text
\* update_bookmarks produced, unchanged and once per recorded line, whatever its
\* line number.
C3_InvalidLinesAreRendered ==
    (InParsedFile /\ op.name = "update_bookmarks") =>
        \A k \in DOMAIN parsed_file.invalid_lines :
            Occurrences(plain_text.bookmarks, parsed_file.invalid_lines[k])
                = Cardinality({j \in DOMAIN parsed_file.invalid_lines :
                                  parsed_file.invalid_lines[j] = parsed_file.invalid_lines[k]})

\* ------------------------------------------------------------ C4

\* C4: longest_title is the largest character count among the titles of the
\* stored records, 0 when none is stored, for titles of every length.
C4_LongestTitleIsTheMaximum ==
    InParsedFile =>
        parsed_file.longest_title = MaxOf({CharCount(t) : t \in LiveTitles(parsed_file.bookmarks)})

\* ------------------------------------------------------------ C5

\* C5: longest_category is the largest character count among the categories of
\* the stored records, 0 when none is stored.
C5_LongestCategoryIsTheMaximum ==
    InParsedFile =>
        parsed_file.longest_category
            = MaxOf({CharCount(c) : c \in LiveCategories(parsed_file.bookmarks)})

\* ------------------------------------------------------------ C6

\* C6: a modify_bookmark whose old record equals the new one, and a set_bookmark
\* whose old_url holds a record equal to the new one, change nothing: versions,
\* edited flag, bookmarks map, category list and counts, width trackers.
C6_UpsertOfTheSameRecordIsNoOp ==
    [][/\ (InParsedFile /\ op'.name = "modify_bookmark" /\ op'.args[1] = op'.args[2])
            => (parsed_file' = parsed_file /\ plain_text' = plain_text)
       /\ (InData /\ op'.name = "set_bookmark" /\ op'.args[4] # <<>>
              /\ op'.args[4][1] \in DOMAIN data.bookmarks
              /\ data.bookmarks[op'.args[4][1]]
                    = Bookmark(Trim(op'.args[2]), Trim(op'.args[1]), Trim(op'.args[3])))
            => data' = data]_vars

\* a modify_bookmark(r, r) was the last call of a session that had edited before
C6_Witness ==
    /\ InParsedFile
    /\ op.name = "modify_bookmark"
    /\ op.args[1] = op.args[2]
    /\ plain_text.edited
    /\ plain_text.current_bookmarks_version = 1

\* ------------------------------------------------------------ C7

\* C7: remove_bookmark of a URL that is no key of the bookmarks map changes
\* nothing, in ParsedFile and in Data.
C7_RemoveOfAbsentUrlIsNoOp ==
    [][/\ (InParsedFile /\ op'.name = "remove_bookmark"
              /\ op'.args[1] \notin DOMAIN parsed_file.bookmarks)
            => (parsed_file' = parsed_file /\ plain_text' = plain_text)
       /\ (InData /\ op'.name = "remove_bookmark" /\ op'.args[1] \notin DOMAIN data.bookmarks)
            => data' = data]_vars

\* a remove_bookmark was the last call, the index holds a record, and nothing
\* was ever edited: the URL was absent
C7_Witness ==
    /\ InParsedFile
    /\ op.name = "remove_bookmark"
    /\ op.args[1] \notin DOMAIN parsed_file.bookmarks
    /\ parsed_file.bookmarks # <<>>
    /\ ~plain_text.edited

\* ------------------------------------------------------------ C8

\* C8: the text update_bookmarks leaves, and the text it would return without
\* rendering (versions equal and bookmarks_initialized), is a rendering of the
\* index as it is now; the first update_bookmarks after read renders.
C8_BookmarksCacheIsCoherent ==
    (InParsedFile
        /\ (op.name = "update_bookmarks"
            \/ (plain_text.previous_bookmarks_version = plain_text.current_bookmarks_version
                /\ plain_text.bookmarks_initialized)))
    => plain_text.bookmarks \in Renderings(parsed_file)

\* update_bookmarks was the last call, after two effective mutations
C8_Witness ==
    /\ InParsedFile
    /\ op.name = "update_bookmarks"
    /\ plain_text.current_bookmarks_version = 2
    /\ plain_text.previous_bookmarks_version = 2
    /\ parsed_file.bookmarks # <<>>

\* ------------------------------------------------------------ C9

\* C9: the text a category render returns is the current category list, one name
\* per line: update_categories for PlainText, categories_plain_text for Data.
C9_CategoriesCacheIsCoherent ==
    /\ (InParsedFile /\ op.name = "update_categories")
        => plain_text.categories = JoinLines(parsed_file.categories)
    /\ (InData /\ op.name = "categories_plain_text")
        => data.categories_plain_text = JoinLines(data.categories)

\* ------------------------------------------------------------ C10

CountOf(pf, name) == IF name \in DOMAIN pf.category_count THEN pf.category_count[name] ELSE 0

\* the records of the map that carry a category
RecordsOf(bookmarks, category) == {u \in DOMAIN bookmarks : bookmarks[u].category = category}

\* add_bookmark and remove_bookmark advance the categories version exactly when
\* their call of add_category / remove_category returned true
ReturnedTrue == plain_text'.current_categories_version # plain_text.current_categories_version

\* C11: add_category(name) returns true if and only if the call raised the count
\* of name from 0 to 1, and exactly then name is inserted into the category list
\* (observed at the add_category call of every add_bookmark).
C11_AddCategoryReturnsTrueOnZeroToOne ==
    [][(InParsedFile /\ op'.name = "add_bookmark") =>
         LET name == op'.args[1].category
             raised == CountOf(parsed_file, name) = 0 /\ CountOf(parsed_file', name) = 1
         IN  /\ ReturnedTrue <=> raised
             /\ raised <=> (~Contains(parsed_file.categories, name)
                            /\ Contains(parsed_file'.categories, name))
             /\ ~raised => parsed_file'.categories = parsed_file.categories]_vars

\* C12: remove_category(name) returns true if and only if the call lowered the
\* count of name to 0, and exactly then name is removed from the category list
\* (observed at the remove_category call of every remove_bookmark of a stored URL).
C12_RemoveCategoryReturnsTrueOnZero ==
    [][(InParsedFile /\ op'.name = "remove_bookmark" /\ op'.args[1] \in DOMAIN parsed_file.bookmarks) =>
         LET name == parsed_file.bookmarks[op'.args[1]].category
             lowered == CountOf(parsed_file, name) = 1 /\ CountOf(parsed_file', name) = 0
         IN  /\ ReturnedTrue <=> lowered
             /\ lowered <=> (Contains(parsed_file.categories, name)
                             /\ ~Contains(parsed_file'.categories, name))
             /\ ~lowered => parsed_file'.categories = parsed_file.categories]_vars

\* C13: a name is in the category list if and only if its reference count is at
\* least 1.
C13_ListedIffCounted ==
    InParsedFile =>
        \A name \in ListSet(parsed_file.categories) \cup DOMAIN parsed_file.category_count :
            Contains(parsed_file.categories, name) <=> CountOf(parsed_file, name) >= 1

\* C14: the reference count of a category is the number of stored records that
\* carry the category.
C14_CountIsTheNumberOfRecords ==
    InParsedFile =>
        \A name \in DOMAIN parsed_file.category_count \cup LiveCategories(parsed_file.bookmarks) :
            CountOf(parsed_file, name) = Cardinality(RecordsOf(parsed_file.bookmarks, name))

\* C15: the category list ascends under alphabetic_sort: no adjacent pair (x, y)
\* of the list compares Greater.
C15_CategoriesAscend ==
    InParsedFile =>
        \A i \in 1..(Len(parsed_file.categories) - 1) :
            alphabetic_sort(parsed_file.categories[i], parsed_file.categories[i + 1]) # "Greater"

\* ------------------------------------------------------------ the line codec and the parser

\* a call with its return value
Returned(name, args, ret) == [name |-> name, args |-> args, ret |-> ret]

\* titles handed to Bookmark::new: "t", " t", "a}b", ""
CodecTitles == {<<116>>, <<32, 116>>, <<97, 125, 98>>, <<>>}

\* categories handed to Bookmark::new: "a", "Bb"
CodecCategories == {<<97>>, <<66, 98>>}

\* the URL handed to Bookmark::new: "u1"
CodecUrls == {<<117, 49>>}

\* records with a field at or over its limit: a title of 35 and of 36 'x', a
\* category of 36 'c', a URL of 2049 'u', and a URL of 1025 times "\u00e9", which
\* is 2050 bytes long
LongRecords ==
    {Bookmark(Repeat(120, TITLE_MAX_LENGTH), <<97>>, <<117, 49>>),
     Bookmark(Repeat(120, TITLE_MAX_LENGTH + 1), <<97>>, <<117, 49>>),
     Bookmark(<<116>>, Repeat(99, CATEGORY_MAX_LENGTH + 1), <<117, 49>>),
     Bookmark(<<116>>, <<97>>, Repeat(117, URL_MAX_LENGTH + 1)),
     Bookmark(<<116>>, <<97>>, Repeat(233, URL_MAX_LENGTH \div 2 + 1))}

\* the widths handed to to_line: below, at and above TITLE_MAX_LENGTH - 1
CodecWidths == {0, 2, TITLE_MAX_LENGTH - 1, TITLE_MAX_LENGTH + 1}

\* "{m}{v}", one marker/value pair of a line
Pair(marker, value) ==
    <<SEGMENT_START>> \o marker \o <<SEGMENT_END, SEGMENT_START>> \o value \o <<SEGMENT_END>>

\* "X", a marker that from_line does not know
UnknownMarker == <<88>>

\* the pairs a chosen line is made of
CodecPairs ==
    {Pair(TITLE_MARKER, <<116>>), Pair(CATEGORY_MARKER, <<97>>), Pair(URL_MARKER, <<117, 49>>),
     Pair(UnknownMarker, <<120>>)}

\* the lines the menu may hand back to show_list: two, three or four pairs, in
\* every order, with repetitions, separated by a blank
ChosenLines ==
    {p[1] \o <<SP>> \o p[2] : p \in CodecPairs \X CodecPairs}
    \cup {p[1] \o <<SP>> \o p[2] \o <<SP>> \o p[3] : p \in CodecPairs \X CodecPairs \X CodecPairs}
    \cup {p[1] \o <<SP>> \o p[2] \o <<SP>> \o p[3] \o <<SP>> \o p[1]
          : p \in CodecPairs \X CodecPairs \X CodecPairs}

\* "- note": a line that begins with the separator symbol and goes on
DashNote == <<45, 32, 110, 111, 116, 101>>

\* the lines a bookmark file is made of: "junk", " junk ", "- note", "--", "",
\* a record line, and a record line of another title and category under the same URL
FileLines ==
    {Junk, <<SP>> \o Junk \o <<SP>>, DashNote, <<45, 45>>, <<>>,
     Pair(TITLE_MARKER, <<116>>) \o <<SP>> \o Pair(CATEGORY_MARKER, <<97>>) \o <<SP>>
        \o Pair(URL_MARKER, <<117, 49>>),
     Pair(TITLE_MARKER, <<116, 116>>) \o <<SP>> \o Pair(CATEGORY_MARKER, <<66, 98>>) \o <<SP>>
        \o Pair(URL_MARKER, <<117, 49>>)}

\* "{T}{title} {C}{category} {U}{url}", a record line as a user may have typed it
RecordLine(title, category, url) ==
    Pair(TITLE_MARKER, title) \o <<SP>> \o Pair(CATEGORY_MARKER, category) \o <<SP>>
       \o Pair(URL_MARKER, url)

\* files of several records: records "1" and "2" of category "a" and "3" of
\* category "Bb" with a foreign line after the first; records "1", "2", "3" of the
\* categories "a", "A", "a"; and titles of one and two characters
RecordTexts ==
    {RecordLine(<<49>>, <<97>>, <<117, 49>>) \o <<NL>> \o Junk \o <<NL>>
        \o RecordLine(<<50>>, <<97>>, <<117, 50>>) \o <<NL>>
        \o RecordLine(<<51>>, <<66, 98>>, <<117, 51>>) \o <<NL>>,
     RecordLine(<<49>>, <<97>>, <<117, 49>>) \o <<NL>>
        \o RecordLine(<<50>>, <<65>>, <<117, 50>>) \o <<NL>>
        \o RecordLine(<<51>>, <<97>>, <<117, 51>>) \o <<NL>>,
     RecordLine(<<116>>, <<97>>, <<117, 49>>) \o <<NL>>
        \o RecordLine(<<116, 116>>, <<66, 98>>, <<117, 50>>) \o <<NL>>}

\* the files read: one or two lines, each ended by a newline, and the files of
\* several records
ParsedTexts ==
    {l \o <<NL>> : l \in FileLines}
       \cup {p[1] \o <<NL>> \o p[2] \o <<NL>> : p \in FileLines \X FileLines}
       \cup RecordTexts

\* the names handed to the comparators: "", "a", "A", "b", "ab", "a b", "a-B",
\* "1", "a1", "Z9" and "\u00e9", a letter outside ASCII
SortNames ==
    {<<>>, <<97>>, <<65>>, <<98>>, <<97, 98>>, <<97, 32, 98>>, <<97, 45, 66>>,
     <<49>>, <<97, 49>>, <<90, 57>>, <<233>>}

\* Bookmark::new on the fields typed in, a line chosen in the menu, a file read,
\* or two names that sort_by hands to its comparator
CodecInit ==
    /\ variant = "bookmark"
    /\ pc = "show_list"
    /\ history = <<>>
    /\ file = <<>>
    /\ parsed_file = ParsedFileEmpty
    /\ plain_text = PlainTextNew
    /\ data = DataNew
    /\ \/ \E t \in CodecTitles, c \in CodecCategories, u \in CodecUrls :
             op = Returned("Bookmark::new", <<t, c, u>>, Bookmark(t, c, u))
       \/ \E b \in LongRecords :
             op = Returned("Bookmark::new", <<b.title, b.category, b.url>>, b)
       \/ \E file_line \in ChosenLines : op = Returned("choose", <<>>, file_line)
       \/ \E text \in ParsedTexts : op = Returned("read", <<>>, text)
       \/ \E a \in SortNames, b \in SortNames : op = Returned("sort_by", <<a, b>>, <<>>)

\* bookmark.to_line(title_padding, category_padding) on a record just built
ToLine(title_padding, category_padding) ==
    /\ op.name = "Bookmark::new"
    /\ op' = Returned("to_line", <<op.ret, title_padding, category_padding>>,
                      to_line(op.ret, title_padding, category_padding))
    /\ UNCHANGED <<variant, history, parsed_file, plain_text, data, pc, file>>

\* Bookmark::from_line on a line just encoded or chosen
FromLine ==
    /\ op.name \in {"to_line", "choose"}
    /\ op' = Returned("from_line", <<op.ret>>, from_line(op.ret))
    /\ UNCHANGED <<variant, history, parsed_file, plain_text, data, pc, file>>

\* ParsedFile::new on the text just read
New ==
    /\ op.name = "read"
    /\ parsed_file' \in ParsedFileNew(op.ret)
    /\ op' = Returned("ParsedFile::new", <<op.ret>>, <<>>)
    /\ UNCHANGED <<variant, history, plain_text, data, pc, file>>

\* plain_text.update_bookmarks(parsed_file) on the index just parsed
Render ==
    /\ op.name = "ParsedFile::new"
    /\ plain_text' \in update_bookmarks(plain_text, parsed_file)
    /\ op' = Returned("update_bookmarks", op.args, plain_text'.bookmarks)
    /\ UNCHANGED <<variant, history, parsed_file, data, pc, file>>

\* the next run on the text just rendered: PlainText::new, read and ParsedFile::new
Reparse ==
    /\ op.name = "update_bookmarks"
    /\ plain_text' = read(PlainTextNew, plain_text.bookmarks)
    /\ parsed_file' \in ParsedFileNew(plain_text.bookmarks)
    /\ op' = Returned("ParsedFile::new", <<plain_text.bookmarks>>, <<>>)
    /\ UNCHANGED <<variant, history, data, pc, file>>

\* PlainText::alphabetic_sort on the two names of the comparator
AlphabeticSort ==
    /\ op.name = "sort_by"
    /\ op' = Returned("PlainText::alphabetic_sort", op.args,
                      alphabetic_sort(op.args[1], op.args[2]))
    /\ UNCHANGED <<variant, history, parsed_file, plain_text, data, pc, file>>

\* Data::alphabetic_sort on the two names of the comparator
DataAlphabeticSort ==
    /\ op.name = "sort_by"
    /\ op' = Returned("Data::alphabetic_sort", op.args,
                      Data_alphabetic_sort(op.args[1], op.args[2]))
    /\ UNCHANGED <<variant, history, parsed_file, plain_text, data, pc, file>>

CodecNext ==
    \/ \E title_padding \in CodecWidths, category_padding \in CodecWidths :
          ToLine(title_padding, category_padding)
    \/ FromLine
    \/ New
    \/ Render
    \/ Reparse
    \/ AlphabeticSort
    \/ DataAlphabeticSort

SpecCodec == CodecInit /\ [][CodecNext]_vars

\* ------------------------------------------------------------ observations of the codec

InCodec == variant = "bookmark"

\* the number of blanks that stand in a line from position i on
SpacesFrom(line, i) == Cardinality({j \in i..Len(line) : \A k \in i..j : line[k] = SP})

Max(a, b) == IF a >= b THEN a ELSE b

\* the brace-delimited segments of a line
SegmentsOf(line) == ScanSegments(line, 1, <<>>)

\* the marker of the k-th (marker, value) pair of a line of six segments
MarkerOf(line, k) == SegmentText(SegmentsOf(line)[2 * k - 1])

\* six segments whose pairs carry each of the markers T, C and U exactly once
WellMarked(line) ==
    /\ Len(SegmentsOf(line)) = 6
    /\ \A marker \in {TITLE_MARKER, CATEGORY_MARKER, URL_MARKER} :
          Cardinality({k \in 1..3 : MarkerOf(line, k) = marker}) = 1

\* six segments whose pairs carry T, C and U in this order
InFixedOrder(line) ==
    /\ Len(SegmentsOf(line)) = 6
    /\ MarkerOf(line, 1) = TITLE_MARKER
    /\ MarkerOf(line, 2) = CATEGORY_MARKER
    /\ MarkerOf(line, 3) = URL_MARKER

\* a line made of the separator symbol alone, once or more
OnlySeparators(line) ==
    Trim(line) # <<>> /\ \A k \in 1..Len(Trim(line)) : <<Trim(line)[k]>> = SEPARATOR_LINE_SYMBOL

\* C16: for every record r whose title and category have at most 35 characters
\* and whose URL has at most 2048 bytes, and every pair of widths,
\* from_line(r.to_line(w_t, w_c)) is Some(r).
C16_LineRoundTrip ==
    [][(InCodec /\ op.name = "to_line" /\ op'.name = "from_line") =>
         LET r == op.args[1]
         IN  (/\ CharCount(r.title) <= TITLE_MAX_LENGTH
              /\ CharCount(r.category) <= CATEGORY_MAX_LENGTH
              /\ ByteLen(r.url) <= URL_MAX_LENGTH) => op'.ret = <<r>>]_vars

\* C17: in the line of to_line(title_width, category_width) the blanks after the
\* title value number max(title_width, n) + 1 - n for a title of n <= 35
\* characters, and likewise after the category value with category_width.
C17_PaddingFollowsTheWidth ==
    (InCodec /\ op.name = "to_line") =>
        LET r == op.args[1]
            n == CharCount(r.title)
            m == CharCount(r.category)
            title_end == Len(Pair(TITLE_MARKER, r.title))
            title_gap == SpacesFrom(op.ret, title_end + 1)
            category_end == title_end + title_gap + Len(Pair(CATEGORY_MARKER, r.category))
        IN  /\ n <= TITLE_MAX_LENGTH => title_gap = Max(op.args[2], n) + 1 - n
            /\ m <= CATEGORY_MAX_LENGTH =>
                  SpacesFrom(op.ret, category_end + 1) = Max(op.args[3], m) + 1 - m

\* C18: from_line returns a record only for a line whose segments are three
\* marker/value pairs in the order T, C, U.
C18_DecodesOnlyTheFixedOrder ==
    (InCodec /\ op.name = "from_line" /\ op.ret # <<>>) => InFixedOrder(op.args[1])

\* C19: from_line returns a record if and only if the line has exactly six
\* segments forming three (marker, value) pairs in which each of T, C and U
\* occurs exactly once.
C19_DecodesIffEachMarkerOnce ==
    (InCodec /\ op.name = "from_line") => (op.ret # <<>> <=> WellMarked(op.args[1]))

\* a line of three pairs with a repeated marker was refused
C19_Witness ==
    /\ InCodec
    /\ op.name = "from_line"
    /\ Len(SegmentsOf(op.args[1])) = 6
    /\ MarkerOf(op.args[1], 1) = TITLE_MARKER
    /\ MarkerOf(op.args[1], 2) = TITLE_MARKER
    /\ MarkerOf(op.args[1], 3) = URL_MARKER
    /\ op.ret = <<>>

\* C20: ParsedFile::new stores every non-blank line that is neither a record nor
\* made of '-' alone in invalid_lines, under its line number, text unchanged.
C20_OtherLinesArePreserved ==
    (InCodec /\ op.name = "ParsedFile::new") =>
        LET lines == Lines(op.args[1])
        IN  \A i \in 1..Len(lines) :
               (/\ Trim(lines[i]) # <<>>
                /\ from_line(Trim(lines[i])) = <<>>
                /\ ~OnlySeparators(lines[i]))
               => /\ (i - 1) \in DOMAIN parsed_file.invalid_lines
                  /\ parsed_file.invalid_lines[i - 1] = lines[i]

\* ------------------------------------------------------------ the parse

\* C21: after ParsedFile::new, invalid_lines has no entry for the line number of
\* a line that is empty, made of whitespace, or made of the separator symbol alone.
C21_BlankAndSeparatorLinesAreDropped ==
    (InCodec /\ op.name = "ParsedFile::new") =>
        LET lines == Lines(op.args[1])
        IN  \A i \in 1..Len(lines) :
               (Trim(lines[i]) = <<>> \/ OnlySeparators(lines[i]))
               => (i - 1) \notin DOMAIN parsed_file.invalid_lines

\* C22: the index ParsedFile::new returns has the category list equal to the
\* distinct categories of the stored records, longest_title and longest_category
\* equal to the maxima over the stored records, and every reference count equal
\* to the number of stored records of the category.
C22_ParseSeedsTheIndex ==
    (InCodec /\ op.name = "ParsedFile::new") =>
        /\ ListSet(parsed_file.categories) = LiveCategories(parsed_file.bookmarks)
        /\ NoDuplicates(parsed_file.categories)
        /\ parsed_file.longest_title
              = MaxOf({CharCount(t) : t \in LiveTitles(parsed_file.bookmarks)})
        /\ parsed_file.longest_category
              = MaxOf({CharCount(c) : c \in LiveCategories(parsed_file.bookmarks)})
        /\ \A name \in DOMAIN parsed_file.category_count \cup LiveCategories(parsed_file.bookmarks) :
              CountOf(parsed_file, name) = Cardinality(RecordsOf(parsed_file.bookmarks, name))

\* ------------------------------------------------------------ a run of main

\* The bookmark files a run starts from: an empty file, a file of one record,
\* and a file with a foreign line followed by a record line.
MainFiles ==
    {<<>>,
     to_line(Bookmark(<<116>>, <<97>>, <<117, 49>>), 1, 1),
     Junk \o <<NL>> \o to_line(Bookmark(<<116>>, <<97>>, <<117, 49>>), 1, 1)}

\* what Menu::choose can hand back from a list: one of its lines, trimmed
ChoosableLines(text) == {Trim(Lines(text)[i]) : i \in 1..Len(Lines(text))}

\* the records show_list can decode from a choice in the rendering
ChoosableBookmarks(text) ==
    {from_line(line)[1] : line \in {l \in ChoosableLines(text) : from_line(l) # <<>>}}

\* a decrement of modify_bookmark that meets a zero counter: "attempt to subtract
\* with overflow" where the build checks overflow, a wrapped counter where not
DecrementsZero(pf, new_bookmark, old_bookmark) ==
    /\ old_bookmark # new_bookmark
    /\ \/ /\ old_bookmark.title # new_bookmark.title
          /\ CharCount(old_bookmark.title) \in DOMAIN pf.titles_char_count \ {0}
          /\ pf.titles_char_count[CharCount(old_bookmark.title)] = 0
       \/ /\ old_bookmark.category # new_bookmark.category
          /\ CountOf(pf, old_bookmark.category) = 0
          /\ old_bookmark.category \in DOMAIN pf.category_count

\* main before plain_text.read()
MainInit ==
    /\ variant = "main"
    /\ pc = "read"
    /\ history = <<>>
    /\ file \in MainFiles
    /\ plain_text = PlainTextNew
    /\ parsed_file = ParsedFileEmpty
    /\ data = DataNew
    /\ op = Returned("PlainText::new", <<>>, <<>>)

\* what fs::metadata can answer for the file: an error, its length, or a length
\* at or over the limit
MetadataOf(f) == {<<>>, <<ByteLen(f)>>, <<MAX_FILE_SIZE>>, <<MAX_FILE_SIZE + 1>>}

\* what fs::read_to_string can answer: an error, or the text of the file
ContentsOf(f) == {<<>>, <<f>>}

\* plain_text.read()? returning Ok
Read ==
    /\ pc = "read"
    /\ \E metadata \in MetadataOf(file), contents \in ContentsOf(file) :
          LET r == read_result(plain_text, metadata, contents)
          IN  /\ r.ret = "Ok"
              /\ plain_text' = r.pt
              /\ op' = Returned("read", <<metadata, contents>>, r.ret)
    /\ pc' = "new"
    /\ UNCHANGED <<variant, history, parsed_file, data, file>>

\* plain_text.read()? returning Err: main returns
ReadFails ==
    /\ pc = "read"
    /\ \E metadata \in MetadataOf(file), contents \in ContentsOf(file) :
          LET r == read_result(plain_text, metadata, contents)
          IN  /\ r.ret = "Err"
              /\ plain_text' = r.pt
              /\ op' = Returned("read", <<metadata, contents>>, r.ret)
    /\ pc' = "failed"
    /\ UNCHANGED <<variant, history, parsed_file, data, file>>

\* ParsedFile::new(plain_text.bookmarks())
Parse ==
    /\ pc = "new"
    /\ parsed_file' \in ParsedFileNew(plain_text.bookmarks)
    /\ pc' = "show_list"
    /\ op' = Returned("ParsedFile::new", <<plain_text.bookmarks>>, <<>>)
    /\ UNCHANGED <<variant, history, plain_text, data, file>>

\* show_list returning Ok without a change: nothing chosen, a foreign line
\* chosen, or goto
Quit ==
    /\ pc = "show_list"
    /\ plain_text' \in update_bookmarks(plain_text, parsed_file)
    /\ pc' = "write"
    /\ op' = Returned("show_list", <<>>, "Ok")
    /\ UNCHANGED <<variant, history, parsed_file, data, file>>

\* show_list returning Err: menu.choose or goto failed, and main returns at the ?
MenuFails ==
    /\ pc = "show_list"
    /\ plain_text' \in update_bookmarks(plain_text, parsed_file)
    /\ pc' = "failed"
    /\ op' = Returned("show_list", <<>>, "Err")
    /\ UNCHANGED <<variant, history, parsed_file, data, file>>

\* show_list, the option cancel (or an empty answer in create, modify, remove),
\* and show_list again
Cancel ==
    /\ pc = "show_list"
    /\ plain_text' \in update_bookmarks(plain_text, parsed_file)
    /\ pc' = "show_list"
    /\ op' = Returned("cancel", <<>>, "Ok")
    /\ UNCHANGED <<variant, history, parsed_file, data, file>>

\* show_list, the add entry chosen, create with three answers, show_list again
Create(new_bookmark) ==
    /\ pc = "show_list"
    /\ plain_text.current_bookmarks_version < MaxEdits
    /\ \E rendered \in update_bookmarks(plain_text, parsed_file) :
          \E r \in set_bookmark(parsed_file, update_categories(rendered, parsed_file),
                                new_bookmark, <<>>) :
             /\ parsed_file' = r.pf
             /\ plain_text' = r.pt
    /\ pc' = "show_list"
    /\ op' = Returned("create", <<new_bookmark>>, "Ok")
    /\ UNCHANGED <<variant, history, data, file>>

\* show_list, a record line chosen and decoded, the option modify, modify with
\* three answers, show_list again
Modify(new_bookmark) ==
    /\ pc = "show_list"
    /\ plain_text.current_bookmarks_version < MaxEdits
    /\ \E rendered \in update_bookmarks(plain_text, parsed_file) :
          \E bookmark \in ChoosableBookmarks(rendered.bookmarks) :
             /\ \E r \in set_bookmark(parsed_file, update_categories(rendered, parsed_file),
                                      new_bookmark, <<bookmark>>) :
                   /\ parsed_file' = r.pf
                   /\ plain_text' = r.pt
             /\ pc' \in IF DecrementsZero(parsed_file, new_bookmark, bookmark)
                        THEN {"show_list", "panicked"} ELSE {"show_list"}
             /\ op' = Returned("modify", <<new_bookmark, bookmark>>, "Ok")
    /\ UNCHANGED <<variant, history, data, file>>

\* show_list, a record line chosen and decoded, the option remove, the answer
\* yes, show_list again
Remove ==
    /\ pc = "show_list"
    /\ plain_text.current_bookmarks_version < MaxEdits
    /\ \E rendered \in update_bookmarks(plain_text, parsed_file) :
          \E bookmark \in ChoosableBookmarks(rendered.bookmarks) :
             /\ \E r \in remove_bookmark(parsed_file, rendered, bookmark.url) :
                   /\ parsed_file' = r.pf
                   /\ plain_text' = r.pt
             /\ op' = Returned("remove", <<bookmark>>, "Ok")
    /\ pc' = "show_list"
    /\ UNCHANGED <<variant, history, data, file>>

\* plain_text.write(&parsed_file)? and the end of main
Write ==
    /\ pc = "write"
    /\ \E w \in write(plain_text, parsed_file) :
          /\ plain_text' = w.pt
          /\ file' = IF w.written = <<>> THEN file ELSE w.written[1]
          /\ op' = Returned("write", <<>>, w.written)
    /\ pc' = "done"
    /\ UNCHANGED <<variant, history, parsed_file, data>>

MainNext ==
    \/ Read
    \/ ReadFails
    \/ Parse
    \/ Quit
    \/ MenuFails
    \/ Cancel
    \/ \E new_bookmark \in Bookmarks : Create(new_bookmark)
    \/ \E new_bookmark \in Bookmarks : Modify(new_bookmark)
    \/ Remove
    \/ Write

SpecMain == MainInit /\ [][MainNext]_vars

InMain == variant = "main"

\* ------------------------------------------------------------ the width trackers alone

\* the number of calls made to a tracker
MaxCalls == 4

\* the widest field handed to a tracker
MaxWidth == 3

\* the capacity of the histogram: the buckets 0..MaxWidth
HistogramCapacity == MaxWidth + 1

\* a field of the given width
FieldOfWidth(w) == Repeat(120, w)

\* the histogram fields of the struct literal of ParsedFile::new, at a small capacity
HistogramEmpty ==
    [titles_char_count |-> [i \in 0..(HistogramCapacity - 1) |-> 0], longest_title |-> 0]

\* how many fields of width w are live after the first n calls of a history:
\* its adds less its removes
LiveCount(h, n, w) ==
    Cardinality({i \in 1..n : h[i].name \in {"update_longest_title", "add_char_count"}
                              /\ h[i].args[1] = w})
    - Cardinality({i \in 1..n : h[i].name \in {"revert_longest_title", "remove_char_count"}
                                /\ h[i].args[1] = w})

\* a tracker before its first call: the two slots of parse_file.rs, or the
\* histogram of parsed_file.rs
WidthsInit ==
    /\ variant \in {"two_slot", "histogram"}
    /\ pc = "show_list"
    /\ file = <<>>
    /\ history = <<>>
    /\ parsed_file = IF variant = "two_slot" THEN TwoSlotEmpty ELSE HistogramEmpty
    /\ plain_text = PlainTextNew
    /\ data = DataNew
    /\ op = Returned("ParsedFile::new", <<>>, <<>>)

\* update_longest_title(w) for a record added
UpdateLongestTitle(w) ==
    /\ variant = "two_slot"
    /\ Len(history) < MaxCalls
    /\ parsed_file' = update_longest_title(parsed_file, w)
    /\ op' = Returned("update_longest_title", <<w>>, <<>>)
    /\ history' = Append(history, op')
    /\ UNCHANGED <<variant, plain_text, data, pc, file>>

\* revert_longest_title(w) for a live record removed
RevertLongestTitle(w) ==
    /\ variant = "two_slot"
    /\ Len(history) < MaxCalls
    /\ LiveCount(history, Len(history), w) > 0
    /\ parsed_file' = revert_longest_title(parsed_file, w)
    /\ op' = Returned("revert_longest_title", <<w>>, <<>>)
    /\ history' = Append(history, op')
    /\ UNCHANGED <<variant, plain_text, data, pc, file>>

\* add_char_count on a field of width w
AddCharCount(w) ==
    /\ variant = "histogram"
    /\ Len(history) < MaxCalls
    /\ LET r == add_char_count(parsed_file.titles_char_count, parsed_file.longest_title,
                               FieldOfWidth(w))
       IN  parsed_file' = [titles_char_count |-> r.vec, longest_title |-> r.longest]
    /\ op' = Returned("add_char_count", <<w>>, <<>>)
    /\ history' = Append(history, op')
    /\ UNCHANGED <<variant, plain_text, data, pc, file>>

\* remove_char_count on a field of width w that an earlier add has not yet lost
RemoveCharCount(w) ==
    /\ variant = "histogram"
    /\ Len(history) < MaxCalls
    /\ LiveCount(history, Len(history), w) > 0
    /\ LET r == remove_char_count(parsed_file.titles_char_count, parsed_file.longest_title,
                                  FieldOfWidth(w))
       IN  parsed_file' = [titles_char_count |-> r.vec, longest_title |-> r.longest]
    /\ op' = Returned("remove_char_count", <<w>>, <<>>)
    /\ history' = Append(history, op')
    /\ UNCHANGED <<variant, plain_text, data, pc, file>>

WidthsNext ==
    \/ \E w \in 1..MaxWidth : UpdateLongestTitle(w)
    \/ \E w \in 1..MaxWidth : RevertLongestTitle(w)
    \/ \E w \in 1..MaxWidth : AddCharCount(w)
    \/ \E w \in 1..MaxWidth : RemoveCharCount(w)

SpecWidths == WidthsInit /\ [][WidthsNext]_vars

\* ------------------------------------------------------------ C33

\* the widths live after the first n calls
LiveWidths(h, n) == {w \in 1..MaxWidth : LiveCount(h, n, w) > 0}

\* the largest live width after the first n calls, 0 when none is live
TrueMaximum(h, n) ==
    IF LiveWidths(h, n) = {} THEN 0
    ELSE CHOOSE w \in LiveWidths(h, n) : \A v \in LiveWidths(h, n) : v <= w

\* at no point of the history did two live records share the maximum width
NeverTiedAtTheMaximum(h) ==
    \A n \in 0..Len(h) : TrueMaximum(h, n) # 0 => LiveCount(h, n, TrueMaximum(h, n)) = 1

\* C33: the two-slot tracker of parse_file.rs holds the maximum width of the
\* live records after every call, as long as no two live records ever shared
\* the maximum width.
C33_TwoSlotTrackerHoldsTheMaximum ==
    (variant = "two_slot" /\ NeverTiedAtTheMaximum(history))
    => parsed_file.longest_title = TrueMaximum(history, Len(history))

\* ------------------------------------------------------------ C34

\* C34: after any sequence of add_char_count and matched remove_char_count calls
\* on fields of the widths 1..N-1, longest is the largest width with more adds
\* than removes, or 0 when there is none.
C34_HistogramHoldsTheMaximum ==
    variant = "histogram"
    => parsed_file.longest_title = TrueMaximum(history, Len(history))

\* one of two fields tied at the maximum was removed, a narrower one being live
C34_Witness ==
    /\ variant = "histogram"
    /\ Len(history) = 4
    /\ history[4].name = "remove_char_count"
    /\ history[4].args[1] = 3
    /\ LiveCount(history, 4, 3) = 1
    /\ LiveCount(history, 4, 1) = 1
    /\ parsed_file.longest_title = 3

\* ------------------------------------------------------------ C23

\* C23: when the index holds no record and no invalid line, the text that
\* update_bookmarks produces is empty.
C23_EmptyIndexRendersEmpty ==
    (/\ InParsedFile
     /\ op.name = "update_bookmarks"
     /\ DOMAIN parsed_file.bookmarks = {}
     /\ DOMAIN parsed_file.invalid_lines = {})
    => plain_text.bookmarks = <<>>

\* ------------------------------------------------------------ C24

\* the step is an add, a modify with old # new, or a remove of a present URL
EffectiveMutation ==
    \/ op'.name = "create"
    \/ op'.name = "modify" /\ op'.args[1] # op'.args[2]
    \/ op'.name = "remove" /\ op'.args[1].url \in DOMAIN parsed_file.bookmarks

C25_WrittenTextParsesToTheIndex ==
    (InMain /\ pc = "done" /\ op.name = "write" /\ op.ret # <<>>)
    => \A pf \in ParsedFileNew(op.ret[1]) :
          {pf.bookmarks[u] : u \in DOMAIN pf.bookmarks}
             = {parsed_file.bookmarks[u] : u \in DOMAIN parsed_file.bookmarks}

\* ------------------------------------------------------------ C26

\* the calls of a menu interaction
MenuOps == {"show_list", "cancel", "create", "modify", "remove"}

C27_MutatedRunsWriteBeforeExit ==
    (InMain /\ pc \in {"done", "failed"} /\ plain_text.current_bookmarks_version > 0)
    => (op.name = "write" /\ op.ret # <<>>)

\* ------------------------------------------------------------ C28

\* C28: in the session flow no category count and no width bucket goes below
\* zero, and no decrement panics.
C28_NoCounterBelowZero ==
    InMain =>
        /\ pc # "panicked"
        /\ \A name \in DOMAIN parsed_file.category_count : parsed_file.category_count[name] >= 0
        /\ \A i \in DOMAIN parsed_file.titles_char_count : parsed_file.titles_char_count[i] >= 0
        /\ \A i \in DOMAIN parsed_file.categories_char_count :
              parsed_file.categories_char_count[i] >= 0

\* ------------------------------------------------------------ C29

\* the ASCII letters and digits of a string, in their order, letters in lowercase
RECURSIVE KeptLowered(_)
KeptLowered(s) ==
    IF s = <<>> THEN <<>>
    ELSE LET c == Head(s)
         IN  (IF c \in 65..90 THEN <<c + 32>>
              ELSE IF c \in (48..57) \cup (97..122) THEN <<c>>
              ELSE <<>>) \o KeptLowered(Tail(s))

\* x comes before y in the lexicographic order: they agree on k places, and then
\* x ends and y goes on, or x has the smaller code point
LexLess(x, y) ==
    \E k \in 0..Len(x) :
       /\ k <= Len(y)
       /\ SubSeq(x, 1, k) = SubSeq(y, 1, k)
       /\ \/ k = Len(x) /\ k < Len(y)
          \/ k < Len(x) /\ k < Len(y) /\ x[k + 1] < y[k + 1]

\* C29: alphabetic_sort(a, b), of PlainText and of Data, is the lexicographic
\* comparison of the folds of a and b: Equal exactly when the folds are equal,
\* Less exactly when the fold of a comes first (a digit before a letter, a
\* strict prefix before its extension), Greater exactly when the fold of b does.
C29_AlphabeticSortComparesTheFolds ==
    (InCodec /\ op.name \in {"PlainText::alphabetic_sort", "Data::alphabetic_sort"})
    => LET fa == KeptLowered(op.args[1])
           fb == KeptLowered(op.args[2])
       IN  /\ op.ret \in {"Less", "Equal", "Greater"}
           /\ op.ret = "Equal" <=> fa = fb
           /\ op.ret = "Less" <=> LexLess(fa, fb)
           /\ op.ret = "Greater" <=> LexLess(fb, fa)

\* two different names compared Equal
C29_Witness ==
    /\ InCodec
    /\ op.name = "PlainText::alphabetic_sort"
    /\ op.args[1] # op.args[2]
    /\ op.args[1] # <<>>
    /\ op.args[2] # <<>>
    /\ op.ret = "Equal"

\* ------------------------------------------------------------ C30

\* C30: modify_bookmark(new, old) with old in the index and old # new leaves the
\* map as it was but for old.url, whose entry is gone, and new.url, which holds
\* new; the number of records is the same unless new.url was the key of another
\* record; the bookmarks version advances by one and edited is true.
C30_ModifyReplacesTheOldEntry ==
    [][(/\ InParsedFile
        /\ op'.name = "modify_bookmark"
        /\ op'.args[1] # op'.args[2]
        /\ op'.args[2].url \in DOMAIN parsed_file.bookmarks
        /\ parsed_file.bookmarks[op'.args[2].url] = op'.args[2])
       => LET new == op'.args[1]
              old == op'.args[2]
              before == parsed_file.bookmarks
              after == parsed_file'.bookmarks
          IN  /\ DOMAIN after = (DOMAIN before \ {old.url}) \cup {new.url}
              /\ after[new.url] = new
              /\ \A u \in DOMAIN after \ {new.url} : after[u] = before[u]
              /\ new.url # old.url => old.url \notin DOMAIN after
              /\ (new.url = old.url \/ new.url \notin DOMAIN before)
                    => Cardinality(DOMAIN after) = Cardinality(DOMAIN before)
              /\ plain_text'.current_bookmarks_version
                    = plain_text.current_bookmarks_version + 1
              /\ plain_text'.edited]_vars

\* a modify_bookmark has moved a record to a URL that was free
C30_Witness ==
    /\ InParsedFile
    /\ op.name = "modify_bookmark"
    /\ op.args[1].url # op.args[2].url
    /\ op.args[2].url \notin DOMAIN parsed_file.bookmarks
    /\ op.args[1].url \in DOMAIN parsed_file.bookmarks
    /\ parsed_file.bookmarks[op.args[1].url] = op.args[1]
    /\ Cardinality(DOMAIN parsed_file.bookmarks) = 1
    /\ plain_text.current_bookmarks_version = 1

\* ------------------------------------------------------------ C31

\* the call of the step is an add_bookmark, a modify_bookmark with old # new, or
\* a remove_bookmark of a URL the map holds
EffectiveCall ==
    \/ op'.name = "add_bookmark"
    \/ op'.name = "modify_bookmark" /\ op'.args[1] # op'.args[2]
    \/ op'.name = "remove_bookmark" /\ op'.args[1] \in DOMAIN parsed_file.bookmarks

\* C31: no step lowers current_bookmarks_version or current_categories_version,
\* every effective mutation raises current_bookmarks_version by exactly one, and
\* in every state neither previous version exceeds its current version.
C31_VersionsAreMonotonic ==
    /\ [](InParsedFile =>
            /\ plain_text.previous_bookmarks_version <= plain_text.current_bookmarks_version
            /\ plain_text.previous_categories_version <= plain_text.current_categories_version)
    /\ [][InParsedFile =>
            /\ plain_text'.current_bookmarks_version >= plain_text.current_bookmarks_version
            /\ plain_text'.current_categories_version >= plain_text.current_categories_version
            /\ plain_text'.previous_bookmarks_version >= plain_text.previous_bookmarks_version
            /\ plain_text'.previous_categories_version >= plain_text.previous_categories_version
            /\ EffectiveCall =>
                  plain_text'.current_bookmarks_version
                     = plain_text.current_bookmarks_version + 1]_vars

\* a remove_bookmark was the second mutation, after a render of the first one
C31_Witness ==
    /\ InParsedFile
    /\ op.name = "remove_bookmark"
    /\ plain_text.current_bookmarks_version = 2
    /\ plain_text.previous_bookmarks_version = 1
    /\ plain_text.bookmarks_initialized

\* ------------------------------------------------------------ C32

\* the lines of the rendering
RenderedLines == Lines(plain_text.bookmarks)

\* line k of the rendering is a record line
IsRecordLine(k) == from_line(RenderedLines[k]) # <<>>

\* line k of the rendering is the separator line of the index: nothing but the
\* symbol '-', longest_title + longest_category + 8 times
IsSeparatorLine(k) ==
    /\ Len(RenderedLines[k]) = parsed_file.longest_title + parsed_file.longest_category + 8
    /\ \A i \in 1..Len(RenderedLines[k]) : RenderedLines[k][i] = 45

\* the record lines above line k
RecordLinesAbove(k) == {j \in 1..(k - 1) : IsRecordLine(j)}

\* the category of the record line k
CategoryAt(k) == from_line(RenderedLines[k])[1].category

RecordLinesOf(category) ==
    {k \in 1..Len(RenderedLines) : IsRecordLine(k) /\ CategoryAt(k) = category}

\* C38: in a rendering the record lines of one category follow one another with
\* no record line of another category between them, and the number of separator
\* lines is the number of distinct categories of the live records less one, or
\* zero without records.
C38_CategoriesAreContiguous ==
    (InCodec /\ op.name = "update_bookmarks")
    => LET categories == LiveCategories(parsed_file.bookmarks)
           separators == {k \in 1..Len(RenderedLines) : IsSeparatorLine(k)}
       IN  /\ \A c \in categories :
                 \A i \in RecordLinesOf(c), j \in RecordLinesOf(c) :
                    \A k \in i..j : IsRecordLine(k) => CategoryAt(k) = c
           /\ Cardinality(separators)
                 = IF categories = {} THEN 0 ELSE Cardinality(categories) - 1

\* ------------------------------------------------------------ C39

\* the records of an index
LiveRecords(pf) == {pf.bookmarks[u] : u \in DOMAIN pf.bookmarks}

\* the texts of the invalid lines of an index
InvalidTexts(pf) == {pf.invalid_lines[i] : i \in DOMAIN pf.invalid_lines}

\* C39: parsing a rendering yields the records and the invalid-line texts of
\* the index it was rendered from, and rendering that parse yields the same text.
C39_RenderingIsAFixedPoint ==
    [][InCodec =>
          /\ (op.name = "update_bookmarks" /\ op'.name = "ParsedFile::new")
                => /\ LiveRecords(parsed_file') = LiveRecords(parsed_file)
                   /\ InvalidTexts(parsed_file') = InvalidTexts(parsed_file)
          /\ (op.name = "ParsedFile::new" /\ op'.name = "update_bookmarks"
                 /\ plain_text.bookmarks # <<>>)
                => plain_text'.bookmarks = plain_text.bookmarks]_vars

\* ------------------------------------------------------------ C35

\* C35: add_bookmark(r) on an index with no record under r.url, followed by
\* remove_bookmark(r.url), leaves the bookmarks map, the category list,
\* longest_title and longest_category as they were before the add.
C35_AddThenRemoveRestoresTheIndex ==
    [][(/\ InParsedFile
        /\ op'.name = "add_bookmark"
        /\ op'.args[1].url \notin DOMAIN parsed_file.bookmarks)
       => \A r \in remove_bookmark(parsed_file', plain_text', op'.args[1].url) :
             /\ r.pf.bookmarks = parsed_file.bookmarks
             /\ r.pf.categories = parsed_file.categories
             /\ r.pf.longest_title = parsed_file.longest_title
             /\ r.pf.longest_category = parsed_file.longest_category]_vars

\* ------------------------------------------------------------ C37

\* the column at which the marker stands in a line: the first position where
\* "{marker}" begins, 0 when the line has none
MarkerColumn(line, marker) ==
    LET at == {j \in 1..(Len(line) - Len(marker) - 1) :
                  SubSeq(line, j, j + Len(marker) + 1)
                     = <<SEGMENT_START>> \o marker \o <<SEGMENT_END>>}
    IN  IF at = {} THEN 0 ELSE CHOOSE j \in at : \A k \in at : j <= k

\* C37: in a rendering every record line has its category marker at one column
\* and its URL marker at one column.
C37_ColumnsAlign ==
    (InParsedFile /\ op.name = "update_bookmarks")
    => \A i \in 1..Len(RenderedLines), j \in 1..Len(RenderedLines) :
          (IsRecordLine(i) /\ IsRecordLine(j))
          => /\ MarkerColumn(RenderedLines[i], CATEGORY_MARKER)
                   = MarkerColumn(RenderedLines[j], CATEGORY_MARKER)
             /\ MarkerColumn(RenderedLines[i], URL_MARKER)
                   = MarkerColumn(RenderedLines[j], URL_MARKER)

\* ------------------------------------------------------------ C36

\* the last position at which "{marker}{" begins in a line
LastMarker(line, marker) ==
    LET at == {j \in 1..(Len(line) - Len(marker) - 2) :
                  SubSeq(line, j, j + Len(marker) + 2)
                     = <<SEGMENT_START>> \o marker \o <<SEGMENT_END, SEGMENT_START>>}
    IN  CHOOSE j \in at : \A k \in at : k <= j

\* the value that starts at position from and ends before the last '}' up to position to
ValueBetween(line, from, to) ==
    LET closes == {j \in from..to : line[j] = SEGMENT_END}
    IN  SubSeq(line, from, (CHOOSE j \in closes : \A k \in closes : k <= j) - 1)

\* v is the beginning of field, and all of it when field has at most limit characters
CutOf(v, field, limit) ==
    /\ Len(v) <= limit
    /\ Len(v) <= Len(field)
    /\ v = SubSeq(field, 1, Len(v))
    /\ Len(field) <= limit => v = field

\* C36: in the line of to_line the title and the category have at most 35
\* characters and the URL at most 2048, each is a prefix of its field, and a
\* field within its limit is emitted whole.
C36_ValuesAreCutToTheirLimits ==
    (InCodec /\ op.name = "to_line")
    => LET b == op.args[1]
           line == op.ret
           category_at == LastMarker(line, CATEGORY_MARKER)
           url_at == LastMarker(line, URL_MARKER)
       IN  /\ CutOf(ValueBetween(line, Len(TITLE_MARKER) + 4, category_at - 1), b.title, 35)
           /\ CutOf(ValueBetween(line, category_at + Len(CATEGORY_MARKER) + 3, url_at - 1),
                    b.category, 35)
           /\ CutOf(ValueBetween(line, url_at + Len(URL_MARKER) + 3, Len(line)), b.url, 2048)

\* a record with a URL of more than 2048 characters was encoded
C36_Witness ==
    /\ InCodec
    /\ op.name = "to_line"
    /\ Len(op.args[1].url) > 2048
    /\ Len(op.ret) < Len(op.args[1].url) + 20

\* ------------------------------------------------------------ C40

\* the file system's answers make PlainText::read fail: no metadata, a file of
\* more than 5 * 1024 * 1024 bytes, or contents that are not text
ReadMustFail(metadata, contents) ==
    \/ metadata = <<>>
    \/ metadata # <<>> /\ metadata[1] > 5 * 1024 * 1024
    \/ contents = <<>>

\* C40: a read that fails returns Err and leaves the cached text, the version
\* counters and the edited flag as they were; main then stops: nothing is
\* parsed, no menu is shown and the file is not written.
C40_FailedReadStopsMain ==
    [][/\ (InMain /\ op'.name = "read" /\ ReadMustFail(op'.args[1], op'.args[2]))
          => /\ op'.ret = "Err"
             /\ plain_text' = plain_text
             /\ parsed_file' = parsed_file
             /\ file' = file
             /\ pc' = "failed"
       /\ (InMain /\ pc = "failed") => UNCHANGED vars]_vars

\* main stopped on a file over the size limit whose contents could have been read
C40_Witness ==
    /\ InMain
    /\ pc = "failed"
    /\ op.name = "read"
    /\ op.ret = "Err"
    /\ op.args[1] = <<MAX_FILE_SIZE + 1>>
    /\ op.args[2] # <<>>
    /\ plain_text = PlainTextNew

====
